---- MODULE Spec2Model ----
(***************************************************************************)
(* Model of the Simple Calculator's calculation engine (src/src/calculator.c)*)
(* and of the console handler that drives it (src/src/menu.c).              *)
(*                                                                         *)
(* Number formats.  The C types are modelled by reduced formats with the   *)
(* same structure as the real ones:                                        *)
(*   double  finite values are sign * m * 2^-FracBits with                 *)
(*           0 <= m <= 2^MaxExp * 2^FracBits, plus +0/-0, +inf/-inf, NaN;  *)
(*           results round to nearest, ties to even, and a rounded         *)
(*           magnitude above DBL_MAX = 2^MaxExp becomes an infinity;       *)
(*   int     two's complement of IntBits bits.                             *)
(* CALC_PRECISION_EPSILON is EpsUnits steps of the smallest positive       *)
(* double, so that doubles below, at and above it exist.                   *)
(***************************************************************************)
EXTENDS Integers, Sequences, FiniteSets, TLC

VARIABLES pc, call, old, result, ret, errno, console, before,
          ui, history, listed, computed, picked, loop

vars ==
    <<pc, call, old, result, ret, errno, console, before,
      ui, history, listed, computed, picked, loop>>

----------------------------------------------------------------------------
(* Bounds of the reduced number formats *)

MaxExp == 10

FracBits == 3

IntBits == 6

(* Capacity of the history log in the reduced model *)
MAX_HISTORY == 2

(* CALC_PRECISION_EPSILON in steps of the smallest positive double *)
EpsUnits == 2

RECURSIVE Pow2(_)
Pow2(n) == IF n = 0 THEN 1 ELSE 2 * Pow2(n - 1)

Scale == Pow2(FracBits)

MaxMag == Pow2(MaxExp) * Scale

INT_MAX == Pow2(IntBits - 1) - 1

INT_MIN == 0 - Pow2(IntBits - 1)

----------------------------------------------------------------------------
(* double values *)

Fin(s, m) == [k |-> "fin", s |-> s, m |-> m]

Inf(s) == [k |-> "inf", s |-> s, m |-> 0]

NaN == [k |-> "nan", s |-> 1, m |-> 0]

D(n) == Fin(1, n * Scale)

Neg(v) == IF v.k = "nan" THEN v ELSE [v EXCEPT !.s = 0 - v.s]

DBL_MAX == Fin(1, MaxMag)

Half == Fin(1, Scale \div 2)

Tiny == Fin(1, 1)

CALC_PRECISION_EPSILON == Fin(1, EpsUnits)

isfinite(v) == v.k = "fin"

isnan(v) == v.k = "nan"

isinf(v) == v.k = "inf"

(* Position of a non-NaN value on the extended real line, in steps *)
Key(v) == IF v.k = "fin" THEN v.s * v.m ELSE v.s * (MaxMag + 1)

(* The C comparisons x < y, x > y, x == y, x != y on doubles *)
FLt(x, y) == ~isnan(x) /\ ~isnan(y) /\ Key(x) < Key(y)

FGt(x, y) == FLt(y, x)

FEq(x, y) == ~isnan(x) /\ ~isnan(y) /\ Key(x) = Key(y)

FNe(x, y) == ~FEq(x, y)

fabs(v) == IF v.k = "nan" THEN v ELSE [v EXCEPT !.s = 1]

Abs(i) == IF i < 0 THEN 0 - i ELSE i

Sgn(i) == IF i < 0 THEN 0 - 1 ELSE 1

(* num/den steps (num >= 0, den > 0) rounded to nearest, ties to even *)
RoundQ(num, den) ==
    LET q == num \div den
        r == num % den
    IN  IF 2 * r < den THEN q
        ELSE IF 2 * r > den THEN q + 1
        ELSE IF q % 2 = 0 THEN q ELSE q + 1

Round(s, num, den) ==
    LET q == RoundQ(num, den)
    IN  IF q > MaxMag THEN Inf(s) ELSE Fin(s, q)

(* a + b *)
FAdd(x, y) ==
    IF isnan(x) \/ isnan(y) THEN NaN
    ELSE IF isinf(x) THEN (IF isinf(y) /\ y.s # x.s THEN NaN ELSE x)
    ELSE IF isinf(y) THEN y
    ELSE LET t == x.s * x.m + y.s * y.m
         IN  IF t = 0
             THEN Fin(IF x.s = 0 - 1 /\ y.s = 0 - 1 THEN 0 - 1 ELSE 1, 0)
             ELSE Round(Sgn(t), Abs(t), 1)

(* a - b *)
FSub(x, y) == FAdd(x, Neg(y))

(* a * b *)
FMul(x, y) ==
    IF isnan(x) \/ isnan(y) THEN NaN
    ELSE IF isinf(x) \/ isinf(y)
         THEN (IF (isfinite(x) /\ x.m = 0) \/ (isfinite(y) /\ y.m = 0)
               THEN NaN ELSE Inf(x.s * y.s))
    ELSE Round(x.s * y.s, x.m * y.m, Scale)

(* a / b *)
FDiv(x, y) ==
    IF isnan(x) \/ isnan(y) THEN NaN
    ELSE IF isinf(x) THEN (IF isinf(y) THEN NaN ELSE Inf(x.s * y.s))
    ELSE IF isinf(y) THEN Fin(x.s * y.s, 0)
    ELSE IF y.m = 0 THEN (IF x.m = 0 THEN NaN ELSE Inf(x.s * y.s))
    ELSE Round(x.s * y.s, x.m * Scale, y.m)

IsInteger(v) == isinf(v) \/ (isfinite(v) /\ v.m % Scale = 0)

IsOddInteger(v) == isfinite(v) /\ v.m % Scale = 0 /\ (v.m \div Scale) % 2 = 1

(* floor(x) on doubles *)
floor(v) ==
    IF ~isfinite(v) THEN v
    ELSE IF v.m % Scale = 0 THEN v
    ELSE IF v.s = 1 THEN Fin(1, (v.m \div Scale) * Scale)
    ELSE Fin(0 - 1, ((v.m \div Scale) + 1) * Scale)

----------------------------------------------------------------------------
(* pow(x, y) of <math.h> on an IEC 60559 implementation (C11 7.12.7.4 and  *)
(* F.10.4.4): the value, and the errno it sets (E0 when it sets none).     *)

E0 == "0"

EDOM == "EDOM"

ERANGE == "ERANGE"

RECURSIVE GCD(_, _)
GCD(x, y) == IF y = 0 THEN x ELSE GCD(y, x % y)

(* (p/q)^n as an exact fraction <<P, Q>>, started from <<P, Q>> = <<1, 1>>. *)
(* The product stops growing once it is past DBL_MAX (p > q) or below half  *)
(* of the smallest positive double (p < q): further factors keep it there.  *)
RECURSIVE RatPow(_, _, _, _, _)
RatPow(p, q, n, P, Q) ==
    IF n = 0 THEN <<P, Q>>
    ELSE IF P * Scale > (MaxMag + 1) * Q THEN <<P, Q>>
    ELSE IF 2 * Scale * P < Q THEN <<P, Q>>
    ELSE RatPow(p, q, n - 1, P * p, Q * q)

(* The largest r with r * r <= v *)
RECURSIVE FloorSqrt(_)
FloorSqrt(v) ==
    IF v < 2 THEN v
    ELSE LET r == 2 * FloorSqrt(v \div 4)
         IN  IF (r + 1) * (r + 1) <= v THEN r + 1 ELSE r

(* The step count nearest to sqrt(v) steps^2: the least r with             *)
(* r * r + r >= v                                                          *)
ISqrt(v) ==
    LET r == FloorSqrt(v)
    IN  IF r * r + r >= v THEN r ELSE r + 1

(* |x|^y for finite x # 0, |x| # 1 and finite y # 0, where y is an integer *)
(* or +1/2; rounded to a double of sign s                                  *)
PowMag(s, x, y) ==
    IF ~IsInteger(y)
    THEN Fin(s, ISqrt(x.m * Scale))
    ELSE LET g == GCD(x.m, Scale)
             p == x.m \div g
             q == Scale \div g
             n == y.m \div Scale
             f == IF y.s = 1 THEN RatPow(p, q, n, 1, 1) ELSE RatPow(q, p, n, 1, 1)
         IN  Round(s, f[1] * Scale, f[2])

pow(x, y) ==
    IF (isfinite(y) /\ y.m = 0) \/ FEq(x, D(1))
      THEN [val |-> D(1), err |-> E0]
    ELSE IF isnan(x) \/ isnan(y)
      THEN [val |-> NaN, err |-> E0]
    ELSE IF isfinite(x) /\ x.m = 0
      THEN IF y.s = 1
           THEN [val |-> Fin(IF IsOddInteger(y) THEN x.s ELSE 1, 0), err |-> E0]
           ELSE IF isinf(y)
           THEN [val |-> Inf(1), err |-> E0]
           ELSE [val |-> Inf(IF IsOddInteger(y) THEN x.s ELSE 1), err |-> ERANGE]
    ELSE IF isinf(y)
      THEN IF FEq(x, Neg(D(1))) THEN [val |-> D(1), err |-> E0]
           ELSE IF FLt(fabs(x), D(1)) = (y.s = 1)
           THEN [val |-> D(0), err |-> E0]
           ELSE [val |-> Inf(1), err |-> E0]
    ELSE IF isinf(x)
      THEN LET s == IF x.s = 0 - 1 /\ IsOddInteger(y) THEN 0 - 1 ELSE 1
           IN  IF y.s = 1 THEN [val |-> Inf(s), err |-> E0]
               ELSE [val |-> Fin(s, 0), err |-> E0]
    ELSE IF x.s = 0 - 1 /\ ~IsInteger(y)
      THEN [val |-> NaN, err |-> EDOM]
    ELSE LET s == IF x.s = 0 - 1 /\ IsOddInteger(y) THEN 0 - 1 ELSE 1
             v == IF x.m = Scale THEN Fin(s, Scale) ELSE PowMag(s, x, y)
         IN  [val |-> v,
              err |-> IF isinf(v) \/ v.m = 0 THEN ERANGE ELSE E0]

----------------------------------------------------------------------------
(* int values and the conversions between int and double *)

(* a % b of C for b # 0 and not (a = INT_MIN and b = -1): the remainder of *)
(* the division truncated toward zero                                      *)
CRem(a, b) == Sgn(a) * (Abs(a) % Abs(b))

(* (double)i *)
IntToDouble(i) == Fin(Sgn(i), Abs(i) * Scale)

(* The double's value truncated toward zero, for a finite double *)
Trunc(v) == v.s * (v.m \div Scale)

(* (int)v.  C11 6.3.1.4: the fractional part is discarded; when the        *)
(* integral part is not a value of int (also for NaN and the infinities)   *)
(* the behaviour is undefined: builds produce INT_MIN (x86 cvttsd2si), a   *)
(* saturated value, or 0.                                                  *)
DoubleToInt(v) ==
    IF isfinite(v) /\ Trunc(v) >= INT_MIN /\ Trunc(v) <= INT_MAX
    THEN {Trunc(v)}
    ELSE {INT_MIN, 0, INT_MAX}

----------------------------------------------------------------------------
(* calc_result_t *)

CALC_SUCCESS == "CALC_SUCCESS"

CALC_ERROR_DIVISION_BY_ZERO == "CALC_ERROR_DIVISION_BY_ZERO"

CALC_ERROR_DOMAIN == "CALC_ERROR_DOMAIN"

CALC_ERROR_OVERFLOW == "CALC_ERROR_OVERFLOW"

CALC_ERROR_UNDERFLOW == "CALC_ERROR_UNDERFLOW"

CALC_ERROR_INVALID_INPUT == "CALC_ERROR_INVALID_INPUT"

CALC_ERROR_INIT == "CALC_ERROR_INIT"

(* No code: the call did not return (the process was killed by a trap) *)
NoReturn == "none"

(* The output parameter double *result: a NULL pointer, or a pointer to a  *)
(* slot of the caller that holds val before the call                       *)
NullSlot == [null |-> TRUE, val |-> NaN]

Slot(v) == [null |-> FALSE, val |-> v]

(* What an engine function leaves behind: its return code, the content of  *)
(* the output slot, errno, and whether it returned at all                  *)
Outcome(code, v, e) == [ret |-> code, val |-> v, errno |-> e, trap |-> FALSE]

Trapped(v, e) == [ret |-> NoReturn, val |-> v, errno |-> e, trap |-> TRUE]

----------------------------------------------------------------------------
(* Validation functions, calculator.c:221-232 *)

calculator_is_valid_number(value) == isfinite(value) /\ ~isnan(value)

(* Variant: the sign test of the overflow check reversed *)
calculator_is_overflow_Negative(value) == isinf(value) /\ FLt(value, D(0))

calculator_is_overflow(value) == isinf(value) /\ FGt(value, D(0))

(* Variant: a zero result counted as underflow *)
calculator_is_underflow_Zero(value) ==
    \/ FEq(value, D(0))
    \/ (isinf(value) /\ FLt(value, D(0)))

(* Variant: only the first test of the underflow check kept *)
calculator_is_underflow_FirstTest(value) ==
    FEq(value, D(0)) /\ ~calculator_is_valid_number(value)

calculator_is_underflow(value) ==
    \/ (FEq(value, D(0)) /\ ~calculator_is_valid_number(value))
    \/ (isinf(value) /\ FLt(value, D(0)))

(* The trailing "Check for overflow/underflow" of every operation *)
Classify(v, e) ==
    IF calculator_is_overflow(v) THEN Outcome(CALC_ERROR_OVERFLOW, v, e)
    ELSE IF calculator_is_underflow(v) THEN Outcome(CALC_ERROR_UNDERFLOW, v, e)
    ELSE Outcome(CALC_SUCCESS, v, e)

----------------------------------------------------------------------------
(* Arithmetic operations, calculator.c:45-215.  res is the output          *)
(* parameter, e the value of errno at the call.                            *)

(* Variant: add with the zero check of divide copied into it *)
calculator_add_ZeroCheck(a, b, res, e) ==
    IF res.null THEN Outcome(CALC_ERROR_INVALID_INPUT, res.val, e)
    ELSE IF ~calculator_is_valid_number(a) \/ ~calculator_is_valid_number(b)
      THEN Outcome(CALC_ERROR_INVALID_INPUT, res.val, e)
    ELSE IF FLt(fabs(b), CALC_PRECISION_EPSILON)
      THEN Outcome(CALC_ERROR_DIVISION_BY_ZERO, res.val, e)
    ELSE Classify(FAdd(a, b), e)

calculator_add(a, b, res, e) ==
    IF res.null THEN Outcome(CALC_ERROR_INVALID_INPUT, res.val, e)
    ELSE IF ~calculator_is_valid_number(a) \/ ~calculator_is_valid_number(b)
      THEN Outcome(CALC_ERROR_INVALID_INPUT, res.val, e)
    ELSE Classify(FAdd(a, b), e)

(* Variant: subtract computing the sum, as its copy in add does *)
calculator_subtract_Adds(a, b, res, e) ==
    IF res.null THEN Outcome(CALC_ERROR_INVALID_INPUT, res.val, e)
    ELSE IF ~calculator_is_valid_number(a) \/ ~calculator_is_valid_number(b)
      THEN Outcome(CALC_ERROR_INVALID_INPUT, res.val, e)
    ELSE Classify(FAdd(a, b), e)

calculator_subtract(a, b, res, e) ==
    IF res.null THEN Outcome(CALC_ERROR_INVALID_INPUT, res.val, e)
    ELSE IF ~calculator_is_valid_number(a) \/ ~calculator_is_valid_number(b)
      THEN Outcome(CALC_ERROR_INVALID_INPUT, res.val, e)
    ELSE Classify(FSub(a, b), e)

calculator_multiply(a, b, res, e) ==
    IF res.null THEN Outcome(CALC_ERROR_INVALID_INPUT, res.val, e)
    ELSE IF ~calculator_is_valid_number(a) \/ ~calculator_is_valid_number(b)
      THEN Outcome(CALC_ERROR_INVALID_INPUT, res.val, e)
    ELSE Classify(FMul(a, b), e)

(* Variant: only an exact zero divisor is rejected *)
DivisorIsZero_ExactZero(b) == FEq(b, D(0))

(* Variant: a divisor of magnitude epsilon is rejected too *)
DivisorIsZero_Inclusive(b) == ~FGt(fabs(b), CALC_PRECISION_EPSILON)

(* fabs(b) < CALC_PRECISION_EPSILON, calculator.c:128 *)
DivisorIsZero(b) == FLt(fabs(b), CALC_PRECISION_EPSILON)

(* Variant: the zero check made before the operands are validated *)
calculator_divide_ZeroCheckFirst(a, b, res, e) ==
    IF res.null THEN Outcome(CALC_ERROR_INVALID_INPUT, res.val, e)
    ELSE IF FLt(fabs(b), CALC_PRECISION_EPSILON)
      THEN Outcome(CALC_ERROR_DIVISION_BY_ZERO, res.val, e)
    ELSE IF ~calculator_is_valid_number(a) \/ ~calculator_is_valid_number(b)
      THEN Outcome(CALC_ERROR_INVALID_INPUT, res.val, e)
    ELSE Classify(FDiv(a, b), e)

(* Variant: the quotient stored before the zero check *)
calculator_divide_StoresFirst(a, b, res, e) ==
    IF res.null THEN Outcome(CALC_ERROR_INVALID_INPUT, res.val, e)
    ELSE IF ~calculator_is_valid_number(a) \/ ~calculator_is_valid_number(b)
      THEN Outcome(CALC_ERROR_INVALID_INPUT, res.val, e)
    ELSE IF DivisorIsZero(b)
      THEN Outcome(CALC_ERROR_DIVISION_BY_ZERO, FDiv(a, b), e)
    ELSE Classify(FDiv(a, b), e)

calculator_divide(a, b, res, e) ==
    IF res.null THEN Outcome(CALC_ERROR_INVALID_INPUT, res.val, e)
    ELSE IF ~calculator_is_valid_number(a) \/ ~calculator_is_valid_number(b)
      THEN Outcome(CALC_ERROR_INVALID_INPUT, res.val, e)
    ELSE IF DivisorIsZero(b)
      THEN Outcome(CALC_ERROR_DIVISION_BY_ZERO, res.val, e)
    ELSE Classify(FDiv(a, b), e)

(* Variant: a negative divisor rejected like a zero one *)
calculator_modulus_NotPositive(a, b, res, e) ==
    IF res.null THEN {Outcome(CALC_ERROR_INVALID_INPUT, res.val, e)}
    ELSE IF a > INT_MAX \/ a < INT_MIN \/ b > INT_MAX \/ b < INT_MIN
      THEN {Outcome(CALC_ERROR_INVALID_INPUT, res.val, e)}
    ELSE IF b <= 0
      THEN {Outcome(CALC_ERROR_DIVISION_BY_ZERO, res.val, e)}
    ELSE {Outcome(CALC_SUCCESS, IntToDouble(CRem(a, b)), e)}

(* a and b are ints.  a % b with a = INT_MIN and b = -1 is undefined (C11  *)
(* 6.5.5p6: the quotient is not representable): the build either traps     *)
(* (x86 idiv raises SIGFPE) or yields 0.                                   *)
calculator_modulus(a, b, res, e) ==
    IF res.null THEN {Outcome(CALC_ERROR_INVALID_INPUT, res.val, e)}
    ELSE IF a > INT_MAX \/ a < INT_MIN \/ b > INT_MAX \/ b < INT_MIN
      THEN {Outcome(CALC_ERROR_INVALID_INPUT, res.val, e)}
    ELSE IF b = 0
      THEN {Outcome(CALC_ERROR_DIVISION_BY_ZERO, res.val, e)}
    ELSE IF a = INT_MIN /\ b = 0 - 1
      THEN {Trapped(res.val, e), Outcome(CALC_SUCCESS, IntToDouble(0), e)}
    ELSE {Outcome(CALC_SUCCESS, IntToDouble(CRem(a, b)), e)}

(* base == 0.0 && exponent < 0.0, calculator.c:179 *)
PowerDividesByZero(base, exponent) == FEq(base, D(0)) /\ FLt(exponent, D(0))

(* Variant: every negative base rejected *)
PowerOutsideDomain_AnyExponent(base, exponent) == FLt(base, D(0))

(* base < 0.0 && floor(exponent) != exponent, calculator.c:183 *)
PowerOutsideDomain(base, exponent) ==
    FLt(base, D(0)) /\ FNe(floor(exponent), exponent)

(* Variant: errno not cleared before pow, which sets it only on an error *)
calculator_power_StaleErrno(base, exponent, res, e) ==
    IF res.null THEN Outcome(CALC_ERROR_INVALID_INPUT, res.val, e)
    ELSE IF ~calculator_is_valid_number(base)
            \/ ~calculator_is_valid_number(exponent)
      THEN Outcome(CALC_ERROR_INVALID_INPUT, res.val, e)
    ELSE IF PowerDividesByZero(base, exponent)
      THEN Outcome(CALC_ERROR_DIVISION_BY_ZERO, res.val, e)
    ELSE IF PowerOutsideDomain(base, exponent)
      THEN Outcome(CALC_ERROR_DOMAIN, res.val, e)
    ELSE LET r == pow(base, exponent)
             err == IF r.err # E0 THEN r.err ELSE e
         IN  IF err = EDOM THEN Outcome(CALC_ERROR_DOMAIN, r.val, err)
             ELSE IF err = ERANGE /\ calculator_is_overflow(r.val)
               THEN Outcome(CALC_ERROR_OVERFLOW, r.val, err)
             ELSE IF err = ERANGE /\ calculator_is_underflow(r.val)
               THEN Outcome(CALC_ERROR_UNDERFLOW, r.val, err)
             ELSE Classify(r.val, err)

calculator_power(base, exponent, res, e) ==
    IF res.null THEN Outcome(CALC_ERROR_INVALID_INPUT, res.val, e)
    ELSE IF ~calculator_is_valid_number(base)
            \/ ~calculator_is_valid_number(exponent)
      THEN Outcome(CALC_ERROR_INVALID_INPUT, res.val, e)
    ELSE IF PowerDividesByZero(base, exponent)
      THEN Outcome(CALC_ERROR_DIVISION_BY_ZERO, res.val, e)
    ELSE IF PowerOutsideDomain(base, exponent)
      THEN Outcome(CALC_ERROR_DOMAIN, res.val, e)
    ELSE LET r == pow(base, exponent)
         IN  IF r.err = EDOM THEN Outcome(CALC_ERROR_DOMAIN, r.val, r.err)
             ELSE IF r.err = ERANGE /\ calculator_is_overflow(r.val)
               THEN Outcome(CALC_ERROR_OVERFLOW, r.val, r.err)
             ELSE IF r.err = ERANGE /\ calculator_is_underflow(r.val)
               THEN Outcome(CALC_ERROR_UNDERFLOW, r.val, r.err)
             ELSE Classify(r.val, r.err)

----------------------------------------------------------------------------
(* Console: menu_handle_calculation, menu.c:91-180 *)

MENU_SUCCESS == "MENU_SUCCESS"

MENU_ERROR_INVALID_INPUT == "MENU_ERROR_INVALID_INPUT"

(* menu_choice_t, menu.h:45-54 *)
MENU_CHOICE_INVALID == 0

MENU_CHOICE_ADD == 1

MENU_CHOICE_SUBTRACT == 2

MENU_CHOICE_MULTIPLY == 3

MENU_CHOICE_DIVIDE == 4

MENU_CHOICE_MODULUS == 5

MENU_CHOICE_POWER == 6

MENU_CHOICE_EXIT == 7

(* A line typed at a prompt: whether scanf("%lf") converts it, and to what *)
Typed(v) == [parses |-> TRUE, val |-> v]

Unparsable == [parses |-> FALSE, val |-> NaN]

(* menu_get_numeric_input, menu.c:186-200: scanf("%lf", value) != 1 is the *)
(* only rejection                                                          *)
menu_get_numeric_input(line) ==
    IF ~line.parses THEN MENU_ERROR_INVALID_INPUT ELSE MENU_SUCCESS

(* The engine call a request made: operation name, operands, and whether   *)
(* the output pointer was NULL                                             *)
EngineCall(op, a, b, null) == [op |-> op, a |-> a, b |-> b, null |-> null]

NoCall == EngineCall("none", NaN, NaN, FALSE)

(* What menu_handle_calculation leaves behind *)
MenuOutcome(status, c, o) == [status |-> status, call |-> c, out |-> o]

(* operation: the menu choice; line1, line2: the operand lines typed;      *)
(* garbage: the indeterminate content of the local double result;          *)
(* e: errno at the call                                                    *)
menu_handle_calculation(operation, line1, line2, garbage, e) ==
    LET res == Slot(garbage)
        operand1 == line1.val
        operand2 == line2.val
        idle == Outcome(NoReturn, garbage, e)
        done(op, a, b, o) ==
            MenuOutcome(IF o.trap THEN NoReturn ELSE MENU_SUCCESS,
                        EngineCall(op, a, b, FALSE), o)
    IN  IF menu_get_numeric_input(line1) # MENU_SUCCESS
          THEN {MenuOutcome(MENU_ERROR_INVALID_INPUT, NoCall, idle)}
        ELSE IF menu_get_numeric_input(line2) # MENU_SUCCESS
          THEN {MenuOutcome(MENU_ERROR_INVALID_INPUT, NoCall, idle)}
        ELSE IF operation = MENU_CHOICE_ADD
          THEN {done("add", operand1, operand2,
                     calculator_add(operand1, operand2, res, e))}
        ELSE IF operation = MENU_CHOICE_SUBTRACT
          THEN {done("subtract", operand1, operand2,
                     calculator_subtract(operand1, operand2, res, e))}
        ELSE IF operation = MENU_CHOICE_MULTIPLY
          THEN {done("multiply", operand1, operand2,
                     calculator_multiply(operand1, operand2, res, e))}
        ELSE IF operation = MENU_CHOICE_DIVIDE
          THEN {done("divide", operand1, operand2,
                     calculator_divide(operand1, operand2, res, e))}
        ELSE IF operation = MENU_CHOICE_MODULUS
          THEN UNION {{done("modulus", a, b, o) :
                           o \in calculator_modulus(a, b, res, e)} :
                         a \in DoubleToInt(operand1),
                         b \in DoubleToInt(operand2)}
        ELSE IF operation = MENU_CHOICE_POWER
          THEN {done("power", operand1, operand2,
                     calculator_power(operand1, operand2, res, e))}
        ELSE {MenuOutcome(MENU_ERROR_INVALID_INPUT, NoCall, idle)}

----------------------------------------------------------------------------
(* Console of main.c: the line readers, main.c:140-165 and 365-396 *)

INPUT_SUCCESS == "INPUT_SUCCESS"

INPUT_ERROR == "INPUT_ERROR"

(* long is twice as wide as int (LP64) *)
LONG_MAX == Pow2(2 * IntBits - 1) - 1

LONG_MIN == 0 - Pow2(2 * IntBits - 1)

(* A line of standard input.  kind says what the text is, n and v carry    *)
(* the number it spells:                                                   *)
(*   "eof"      no line: the input has ended and fgets returns NULL        *)
(*   "empty"    only the newline                                           *)
(*   "word"     text that starts no number ("abc")                         *)
(*   "digits"   the decimal digits of the integer n ("7", "-3")            *)
(*   "decimal"  a floating constant that is no integer constant and whose  *)
(*              value is v ("2.5", "inf", "nan")                           *)
(*   "huge"     a floating constant beyond the range of double ("1e999")   *)
Line(kind, n, v) == [kind |-> kind, n |-> n, v |-> v]

EndOfFile == Line("eof", 0, NaN)

Empty == Line("empty", 0, NaN)

Word == Line("word", 0, NaN)

Digits(n) == Line("digits", n, NaN)

Decimal(v) == Line("decimal", 0, v)

Huge == Line("huge", 0, NaN)

(* The place of a line the handler did not get to read *)
Unread == Line("unread", 0, NaN)

(* What a conversion leaves: the value, whether endptr stands at the end   *)
(* of the line, and the errno it set (E0 when it set none)                 *)
Converted(v, whole, e) == [val |-> v, whole |-> whole, err |-> e]

(* strtol(buffer, &endptr, 10), C11 7.22.1.4: no conversion gives 0 with   *)
(* endptr at the start; a value outside long gives LONG_MAX or LONG_MIN    *)
(* and ERANGE; a floating constant converts up to its '.', 'e' or letter   *)
strtol(line) ==
    CASE line.kind = "empty" -> Converted(0, TRUE, E0)
      [] line.kind = "word" -> Converted(0, FALSE, E0)
      [] line.kind = "digits" ->
            IF line.n > LONG_MAX THEN Converted(LONG_MAX, TRUE, ERANGE)
            ELSE IF line.n < LONG_MIN THEN Converted(LONG_MIN, TRUE, ERANGE)
            ELSE Converted(line.n, TRUE, E0)
      [] line.kind = "decimal" ->
            Converted(IF isfinite(line.v) THEN Trunc(line.v) ELSE 0,
                      FALSE, E0)
      [] line.kind = "huge" -> Converted(1, FALSE, E0)

(* strtod(buffer, &endptr), C11 7.22.1.3: no conversion gives 0 with       *)
(* endptr at the start; "inf" and "nan" convert; a value beyond the range  *)
(* gives HUGE_VAL and ERANGE                                               *)
strtod(line) ==
    CASE line.kind = "empty" -> Converted(D(0), TRUE, E0)
      [] line.kind = "word" -> Converted(D(0), FALSE, E0)
      [] line.kind = "digits" ->
            IF Abs(line.n) * Scale > MaxMag
            THEN Converted(Inf(Sgn(line.n)), TRUE, ERANGE)
            ELSE Converted(IntToDouble(line.n), TRUE, E0)
      [] line.kind = "decimal" -> Converted(line.v, TRUE, E0)
      [] line.kind = "huge" -> Converted(Inf(1), TRUE, ERANGE)

(* What a reader leaves: its return code, the content of the output slot   *)
(* and errno                                                               *)
Read(status, v, e) == [status |-> status, val |-> v, errno |-> e]

(* get_user_choice(&choice) reading line with errno = e at the call *)
get_user_choice(choice, line, e) ==
    IF choice.null THEN Read(INPUT_ERROR, choice.val, e)
    ELSE IF line.kind = "eof" THEN Read(INPUT_ERROR, choice.val, e)
    ELSE LET temp == strtol(line)
         IN  IF temp.err # E0 \/ ~temp.whole
                \/ temp.val < INT_MIN \/ temp.val > INT_MAX
             THEN Read(INPUT_ERROR, choice.val, temp.err)
             ELSE Read(INPUT_SUCCESS, temp.val, temp.err)

(* Variant: the isfinite test of get_double_input left out *)
get_double_input_NoFiniteTest(value, line, e) ==
    IF value.null THEN Read(INPUT_ERROR, value.val, e)
    ELSE IF line.kind = "eof" THEN Read(INPUT_ERROR, value.val, e)
    ELSE LET d == strtod(line)
         IN  IF d.err # E0 \/ ~d.whole THEN Read(INPUT_ERROR, d.val, d.err)
             ELSE Read(INPUT_SUCCESS, d.val, d.err)

(* get_double_input(prompt, &value) reading line with errno = e at the     *)
(* call; *value is assigned before the checks                              *)
get_double_input(value, line, e) ==
    IF value.null THEN Read(INPUT_ERROR, value.val, e)
    ELSE IF line.kind = "eof" THEN Read(INPUT_ERROR, value.val, e)
    ELSE LET d == strtod(line)
         IN  IF d.err # E0 \/ ~d.whole THEN Read(INPUT_ERROR, d.val, d.err)
             ELSE IF ~isfinite(d.val) THEN Read(INPUT_ERROR, d.val, d.err)
             ELSE Read(INPUT_SUCCESS, d.val, d.err)

----------------------------------------------------------------------------
(* The operations main.c calls, by the engine contract of the              *)
(* specification (section 4.1): the validation order of calculator.c,      *)
(* then the operation's own domain check                                   *)

(* The doubles from lo to hi steps of the format *)
Grid(lo, hi) == {Fin(Sgn(k), Abs(k)) : k \in lo..hi}

(* sqrt(x) of <math.h> for finite x >= 0: correctly rounded (IEC 60559) *)
sqrt(x) == Fin(x.s, ISqrt(x.m * Scale))

(* log, sin, cos and tan of <math.h> for finite x: the exact value where   *)
(* it is a double, and elsewhere any double within the function's bounds   *)
(* (the library rounds an irrational value)                                *)
log(x) ==
    IF x.m = Scale THEN {D(0)}
    ELSE IF x.m > Scale THEN Grid(0, x.m)
    ELSE Grid(0 - FracBits * Scale, 0)

sin(x) == IF x.m = 0 THEN {x} ELSE Grid(0 - Scale, Scale)

cos(x) == IF x.m = 0 THEN {D(1)} ELSE Grid(0 - Scale, Scale)

tan(x) == IF x.m = 0 THEN {x} ELSE Grid(0 - MaxMag, MaxMag)

calculate_add(a, b, res, e) == calculator_add(a, b, res, e)

calculate_subtract(a, b, res, e) == calculator_subtract(a, b, res, e)

calculate_multiply(a, b, res, e) == calculator_multiply(a, b, res, e)

calculate_divide(a, b, res, e) == calculator_divide(a, b, res, e)

calculate_power(base, exponent, res, e) ==
    calculator_power(base, exponent, res, e)

(* Variant: the square root taken without the test of the radicand (sqrt   *)
(* of a negative number is NaN)                                            *)
calculate_sqrt_NoDomainTest(a, res, e) ==
    IF res.null THEN Outcome(CALC_ERROR_INVALID_INPUT, res.val, e)
    ELSE IF ~calculator_is_valid_number(a)
      THEN Outcome(CALC_ERROR_INVALID_INPUT, res.val, e)
    ELSE Classify(IF FLt(a, D(0)) THEN NaN ELSE sqrt(a), e)

calculate_sqrt(a, res, e) ==
    IF res.null THEN Outcome(CALC_ERROR_INVALID_INPUT, res.val, e)
    ELSE IF ~calculator_is_valid_number(a)
      THEN Outcome(CALC_ERROR_INVALID_INPUT, res.val, e)
    ELSE IF FLt(a, D(0)) THEN Outcome(CALC_ERROR_DOMAIN, res.val, e)
    ELSE Classify(sqrt(a), e)

calculate_log(a, res, e) ==
    IF res.null THEN {Outcome(CALC_ERROR_INVALID_INPUT, res.val, e)}
    ELSE IF ~calculator_is_valid_number(a)
      THEN {Outcome(CALC_ERROR_INVALID_INPUT, res.val, e)}
    ELSE IF ~FGt(a, D(0)) THEN {Outcome(CALC_ERROR_DOMAIN, res.val, e)}
    ELSE {Classify(v, e) : v \in log(a)}

(* The common body of calculate_sin, calculate_cos and calculate_tan;      *)
(* values is the set of values the library function may give at a         *)
Trigonometric(values, a, res, e) ==
    IF res.null THEN {Outcome(CALC_ERROR_INVALID_INPUT, res.val, e)}
    ELSE IF ~calculator_is_valid_number(a)
      THEN {Outcome(CALC_ERROR_INVALID_INPUT, res.val, e)}
    ELSE {Classify(v, e) : v \in values}

calculate_sin(a, res, e) == Trigonometric(sin(a), a, res, e)

calculate_cos(a, res, e) == Trigonometric(cos(a), a, res, e)

calculate_tan(a, res, e) == Trigonometric(tan(a), a, res, e)

----------------------------------------------------------------------------
(* History log (section 4.2 of the specification): a bounded append-only   *)
(* sequence of entries                                                     *)

(* HistoryEntry: the operands, the result, and the operation as the menu   *)
(* ("basic" or "advanced") and the choice made in it                       *)
Entry(a, b, r, menu, choice) ==
    [a |-> a, b |-> b, result |-> r, menu |-> menu, choice |-> choice]

(* Variant: a full log evicts its oldest entry *)
record_EvictOldest(h, entry) ==
    IF Len(h) < MAX_HISTORY THEN Append(h, entry)
    ELSE Append(Tail(h), entry)

(* record(entry): appended while the log is below its capacity, dropped    *)
(* when it is full                                                         *)
record(h, entry) ==
    IF Len(h) < MAX_HISTORY THEN Append(h, entry) ELSE h

add_to_history(h, num1, num2, r, choice) ==
    record(h, Entry(num1, num2, r, "basic", choice))

add_advanced_to_history(h, num1, num2, r, choice) ==
    record(h, Entry(num1, num2, r, "advanced", choice))

(* Variant: the listing takes the entries out of the log *)
list_Drains(h) == [entries |-> h, history |-> << >>]

(* list(): the entries in insertion order, and the log after the call *)
list(h) == [entries |-> h, history |-> h]

is_empty(h) == Len(h) = 0

(* What a display of the history leaves: whether it found the log empty,   *)
(* the entries it listed, and the log                                      *)
display_calculation_history(h) ==
    [empty |-> is_empty(h), entries |-> list(h).entries,
     history |-> list(h).history]

----------------------------------------------------------------------------
(* Console of main.c: the handlers of the two calculation menus,           *)
(* main.c:171-357.  line0 is the line typed at the menu, line1 and line2   *)
(* the lines typed at the operand prompts, garbage the indeterminate       *)
(* content of the local doubles, e errno at the call, h the history log.   *)

(* What a handler leaves behind: the engine call it made and its outcome,  *)
(* the log, how many times it called add_to_history or                     *)
(* add_advanced_to_history, and how many lines it read                     *)
Handled(c, o, h, appends, lines) ==
    [call |-> c, out |-> o, history |-> h, appends |-> appends,
     lines |-> lines]

(* Variant: the result is saved whatever the status of the calculation *)
handle_basic_operations_SavesAlways(line0, line1, line2, garbage, e, h) ==
    LET c == get_user_choice(Slot(0), line0, e)
        choice == c.val
        n1 == get_double_input(Slot(garbage), line1, c.errno)
        n2 == get_double_input(Slot(garbage), line2, n1.errno)
        num1 == n1.val
        num2 == n2.val
        res == Slot(garbage)
        back(err, lines) ==
            {Handled(NoCall, Outcome(NoReturn, garbage, err), h, 0, lines)}
        done(op, o) ==
            Handled(EngineCall(op, num1, num2, FALSE), o,
                    add_to_history(h, num1, num2, o.val, choice), 1, 3)
    IN  IF c.status # INPUT_SUCCESS THEN back(c.errno, 1)
        ELSE IF choice = 5 THEN back(c.errno, 1)
        ELSE IF choice < 1 \/ choice > 4 THEN back(c.errno, 1)
        ELSE IF n1.status # INPUT_SUCCESS THEN back(n1.errno, 2)
        ELSE IF n2.status # INPUT_SUCCESS THEN back(n2.errno, 3)
        ELSE IF choice = 1
          THEN {done("calculate_add",
                     calculate_add(num1, num2, res, n2.errno))}
        ELSE IF choice = 2
          THEN {done("calculate_subtract",
                     calculate_subtract(num1, num2, res, n2.errno))}
        ELSE IF choice = 3
          THEN {done("calculate_multiply",
                     calculate_multiply(num1, num2, res, n2.errno))}
        ELSE IF choice = 4
          THEN {done("calculate_divide",
                     calculate_divide(num1, num2, res, n2.errno))}
        ELSE back(n2.errno, 3)

(* Variant: the operands handed to add_to_history in the wrong order *)
handle_basic_operations_SwapsOperands(line0, line1, line2, garbage, e, h) ==
    LET c == get_user_choice(Slot(0), line0, e)
        choice == c.val
        n1 == get_double_input(Slot(garbage), line1, c.errno)
        n2 == get_double_input(Slot(garbage), line2, n1.errno)
        num1 == n1.val
        num2 == n2.val
        res == Slot(garbage)
        back(err, lines) ==
            {Handled(NoCall, Outcome(NoReturn, garbage, err), h, 0, lines)}
        done(op, o) ==
            IF o.ret = CALC_SUCCESS
            THEN Handled(EngineCall(op, num1, num2, FALSE), o,
                         add_to_history(h, num2, num1, o.val, choice), 1, 3)
            ELSE Handled(EngineCall(op, num1, num2, FALSE), o, h, 0, 3)
    IN  IF c.status # INPUT_SUCCESS THEN back(c.errno, 1)
        ELSE IF choice = 5 THEN back(c.errno, 1)
        ELSE IF choice < 1 \/ choice > 4 THEN back(c.errno, 1)
        ELSE IF n1.status # INPUT_SUCCESS THEN back(n1.errno, 2)
        ELSE IF n2.status # INPUT_SUCCESS THEN back(n2.errno, 3)
        ELSE IF choice = 1
          THEN {done("calculate_add",
                     calculate_add(num1, num2, res, n2.errno))}
        ELSE IF choice = 2
          THEN {done("calculate_subtract",
                     calculate_subtract(num1, num2, res, n2.errno))}
        ELSE IF choice = 3
          THEN {done("calculate_multiply",
                     calculate_multiply(num1, num2, res, n2.errno))}
        ELSE IF choice = 4
          THEN {done("calculate_divide",
                     calculate_divide(num1, num2, res, n2.errno))}
        ELSE back(n2.errno, 3)

(* handle_basic_operations, main.c:171-251 *)
handle_basic_operations(line0, line1, line2, garbage, e, h) ==
    LET c == get_user_choice(Slot(0), line0, e)
        choice == c.val
        n1 == get_double_input(Slot(garbage), line1, c.errno)
        n2 == get_double_input(Slot(garbage), line2, n1.errno)
        num1 == n1.val
        num2 == n2.val
        res == Slot(garbage)
        back(err, lines) ==
            {Handled(NoCall, Outcome(NoReturn, garbage, err), h, 0, lines)}
        done(op, o) ==
            IF o.ret = CALC_SUCCESS
            THEN Handled(EngineCall(op, num1, num2, FALSE), o,
                         add_to_history(h, num1, num2, o.val, choice), 1, 3)
            ELSE Handled(EngineCall(op, num1, num2, FALSE), o, h, 0, 3)
    IN  IF c.status # INPUT_SUCCESS THEN back(c.errno, 1)
        ELSE IF choice = 5 THEN back(c.errno, 1)
        ELSE IF choice < 1 \/ choice > 4 THEN back(c.errno, 1)
        ELSE IF n1.status # INPUT_SUCCESS THEN back(n1.errno, 2)
        ELSE IF n2.status # INPUT_SUCCESS THEN back(n2.errno, 3)
        ELSE IF choice = 1
          THEN {done("calculate_add",
                     calculate_add(num1, num2, res, n2.errno))}
        ELSE IF choice = 2
          THEN {done("calculate_subtract",
                     calculate_subtract(num1, num2, res, n2.errno))}
        ELSE IF choice = 3
          THEN {done("calculate_multiply",
                     calculate_multiply(num1, num2, res, n2.errno))}
        ELSE IF choice = 4
          THEN {done("calculate_divide",
                     calculate_divide(num1, num2, res, n2.errno))}
        ELSE back(n2.errno, 3)

(* handle_advanced_operations, main.c:257-357.  The second operand is read *)
(* for power only; num2 is 0.0 for the other operations.                   *)
handle_advanced_operations(line0, line1, line2, garbage, e, h) ==
    LET c == get_user_choice(Slot(0), line0, e)
        choice == c.val
        n1 == get_double_input(Slot(garbage), line1, c.errno)
        n2 == get_double_input(Slot(D(0)), line2, n1.errno)
        num1 == n1.val
        res == Slot(garbage)
        back(err, lines) ==
            {Handled(NoCall, Outcome(NoReturn, garbage, err), h, 0, lines)}
        done(op, num2, o, lines) ==
            IF o.ret = CALC_SUCCESS
            THEN Handled(EngineCall(op, num1, num2, FALSE), o,
                         add_advanced_to_history(h, num1, num2, o.val,
                                                 choice), 1, lines)
            ELSE Handled(EngineCall(op, num1, num2, FALSE), o, h, 0, lines)
    IN  IF c.status # INPUT_SUCCESS THEN back(c.errno, 1)
        ELSE IF choice = 7 THEN back(c.errno, 1)
        ELSE IF choice < 1 \/ choice > 6 THEN back(c.errno, 1)
        ELSE IF choice = 1
          THEN IF n1.status # INPUT_SUCCESS THEN back(n1.errno, 2)
               ELSE IF n2.status # INPUT_SUCCESS THEN back(n2.errno, 3)
               ELSE {done("calculate_power", n2.val,
                          calculate_power(num1, n2.val, res, n2.errno), 3)}
        ELSE IF n1.status # INPUT_SUCCESS THEN back(n1.errno, 2)
        ELSE IF choice = 2
          THEN {done("calculate_sqrt", D(0),
                     calculate_sqrt(num1, res, n1.errno), 2)}
        ELSE IF choice = 3
          THEN {done("calculate_log", D(0), o, 2) :
                   o \in calculate_log(num1, res, n1.errno)}
        ELSE IF choice = 4
          THEN {done("calculate_sin", D(0), o, 2) :
                   o \in calculate_sin(num1, res, n1.errno)}
        ELSE IF choice = 5
          THEN {done("calculate_cos", D(0), o, 2) :
                   o \in calculate_cos(num1, res, n1.errno)}
        ELSE IF choice = 6
          THEN {done("calculate_tan", D(0), o, 2) :
                   o \in calculate_tan(num1, res, n1.errno)}
        ELSE back(n1.errno, 2)

----------------------------------------------------------------------------
(* Console of menu.c: menu_get_user_input, menu.c:63-85 *)

(* Menu choice validation bounds, menu.h:29-30 *)
MENU_MIN_CHOICE == 1

MENU_MAX_CHOICE == 7

(* The int of the same bit pattern as the low IntBits bits of n *)
Wrap(n) == ((n - INT_MIN) % Pow2(IntBits)) + INT_MIN

(* What scanf("%d", &input) leaves: the number of conversions it returns   *)
(* (-1 is EOF) and the content of input                                    *)
Scanned(count, v) == [count |-> count, val |-> v]

(* scanf("%d", &input) on a line, input holding v before (C11 7.21.6.2):   *)
(* it converts the longest prefix that is a decimal integer, so "2.5"      *)
(* gives 2 and "1e999" gives 1.  When the integer is not a value of int    *)
(* the behaviour is undefined (paragraph 10): the libraries store the low  *)
(* bits of the value, or the nearest int.                                  *)
scanf_d(line, v) ==
    CASE line.kind = "eof" -> {Scanned(0 - 1, v)}
      [] line.kind = "word" -> {Scanned(0, v)}
      [] line.kind = "digits" ->
            IF line.n >= INT_MIN /\ line.n <= INT_MAX
            THEN {Scanned(1, line.n)}
            ELSE {Scanned(1, Wrap(line.n)),
                  Scanned(1, IF line.n > 0 THEN INT_MAX ELSE INT_MIN)}
      [] line.kind = "decimal" ->
            IF isfinite(line.v) THEN {Scanned(1, Trunc(line.v))}
            ELSE {Scanned(0, v)}
      [] line.kind = "huge" -> {Scanned(1, 1)}

(* What menu_get_user_input leaves: its return code, the content of        *)
(* *choice, and whether it read the input                                  *)
Picked(status, v, reads) == [status |-> status, val |-> v, reads |-> reads]

(* menu_get_user_input(choice) reading line; garbage is the indeterminate  *)
(* content of the local int input                                          *)
menu_get_user_input(choice, line, garbage) ==
    IF choice.null
    THEN {Picked(MENU_ERROR_INVALID_INPUT, choice.val, FALSE)}
    ELSE {IF s.count # 1
          THEN Picked(MENU_ERROR_INVALID_INPUT, MENU_CHOICE_INVALID, TRUE)
          ELSE IF s.val < MENU_MIN_CHOICE \/ s.val > MENU_MAX_CHOICE
          THEN Picked(MENU_ERROR_INVALID_INPUT, MENU_CHOICE_INVALID, TRUE)
          ELSE Picked(MENU_SUCCESS, s.val, TRUE) :
             s \in scanf_d(line, garbage)}

----------------------------------------------------------------------------
(* Inputs *)

Magnitudes ==
    {D(0), Tiny, CALC_PRECISION_EPSILON, Fin(1, EpsUnits + 1),
     D(1), D(2), D(3), D(5), D(6), DBL_MAX}

FiniteDoubles == Magnitudes \cup {Neg(v) : v \in Magnitudes}

Doubles == FiniteDoubles \cup {NaN, Inf(1), Inf(0 - 1)}

PowBases ==
    {NaN, Inf(1), D(0), Neg(D(0)), Tiny, Half, Neg(Half), D(1), Neg(D(1)),
     D(2), Neg(D(2)), D(3), DBL_MAX, Neg(DBL_MAX)}

PowExponents ==
    {NaN, Inf(0 - 1), D(0), Neg(D(0)), Half, D(1), Neg(D(1)), D(2), Neg(D(2)),
     D(3), Neg(D(3)), D(10), DBL_MAX, Neg(DBL_MAX)}

Ints == {INT_MIN, 0 - 7, 0 - 3, 0 - 1, 0, 1, 3, 7, INT_MAX}

(* The values errno may hold when a request starts *)
Errnos == {E0, EDOM, ERANGE}

(* What a caller's output slot may hold before the call *)
SlotContents == {NaN, Fin(1, 7)}

Slots == {NullSlot} \cup {Slot(v) : v \in SlotContents}

Lines == {Unparsable} \cup {Typed(v) : v \in Doubles}

MenuChoices == MENU_CHOICE_INVALID..MENU_CHOICE_EXIT

(* Lines typed at the menu of menu.c *)
ScanLines ==
    {EndOfFile, Word, Decimal(Fin(1, 5 * (Scale \div 2))), Huge,
     Digits(INT_MAX + 1), Digits(Pow2(IntBits) + 1), Digits(INT_MIN - 1)}
        \cup {Digits(n) : n \in (0 - 1)..9}

(* The pointer choice: NULL, or a menu_choice_t of the caller *)
NullChoice == [null |-> TRUE, val |-> MENU_CHOICE_INVALID]

ChoiceSlots == {NullChoice, Slot(MENU_CHOICE_INVALID), Slot(MENU_CHOICE_DIVIDE)}

(* Lines typed at a menu of main.c *)
ChoiceLines ==
    {EndOfFile, Empty, Word, Decimal(Fin(1, 5 * (Scale \div 2))),
     Digits(INT_MAX + 1), Digits(LONG_MAX + 1)}
        \cup {Digits(n) : n \in 0..8}

(* Lines typed at the operand prompts of the basic operations *)
BasicFirstLines == {Word, Decimal(Inf(1)), Digits(2)}

BasicSecondLines == {EndOfFile, Decimal(NaN), Digits(0)}

(* Lines typed at the operand prompts of the advanced operations *)
AdvancedFirstLines == {Word, Huge, Digits(0)}

AdvancedSecondLines == {Word, Digits(0 - 1), Digits(2)}

(* What the local doubles of a handler of main.c may hold at its start *)
LocalContents == {NaN}

----------------------------------------------------------------------------
(* State machine.  pc = "ready": the caller is about to issue a request;   *)
(* "returned": the request returned and its outcome is in call, old,       *)
(* result, ret, console; "trapped": the process was killed.  errno is the  *)
(* only state of the program that outlives a request.                      *)

NoRequest ==
    [operation |-> MENU_CHOICE_INVALID, line1 |-> Unparsable,
     line2 |-> Unparsable, status |-> NoReturn]

(* What the last request made of a menu of main.c was: the handler, the    *)
(* lines it read, and how many times it called add_to_history or           *)
(* add_advanced_to_history                                                 *)
Visit(handler, line0, line1, line2, appends) ==
    [handler |-> handler, line0 |-> line0, line1 |-> line1, line2 |-> line2,
     appends |-> appends]

NoVisit == Visit("none", Unread, Unread, Unread, 0)

(* The last display of the history: whether it found the log empty, the    *)
(* entries it listed, and how many displays (counted up to 2) there were   *)
(* since the last call of add_to_history or add_advanced_to_history        *)
Listing(times, empty, entries) ==
    [times |-> times, empty |-> empty, entries |-> entries]

NotListed == Listing(0, TRUE, << >>)

(* The calculations that succeeded so far, in their order, up to the       *)
(* capacity of the log, and whether there were more                        *)
Successes(entries, excess) == [entries |-> entries, excess |-> excess]

NoneComputed == Successes(<< >>, FALSE)

(* The last call of menu_get_user_input: whether choice was NULL, the line *)
(* at the input, *choice before and after, the return code and whether    *)
(* the input was read                                                      *)
Pick(null, line, was, choice, status, reads) ==
    [null |-> null, line |-> line, was |-> was, choice |-> choice,
     status |-> status, reads |-> reads]

NoPick == Pick(FALSE, Unread, 0, 0, NoReturn, FALSE)

(* The frame of run_main_loop: the statement it is at ("none": not called, *)
(* "while": the loop test, "read": the call of get_user_choice, "switch":  *)
(* the switch, "returned": it returned), its locals running and choice,    *)
(* the last line it read at the main menu, the engine result code of the   *)
(* handler it ran last, and its return value                               *)
Frame(at, running, choice, line, ended, status) ==
    [at |-> at, running |-> running, choice |-> choice, line |-> line,
     ended |-> ended, status |-> status]

NotRunning == Frame("none", FALSE, 0, Unread, NoReturn, NoReturn)

Init ==
    /\ pc = "ready"
    /\ call = NoCall
    /\ old = NaN
    /\ result = NaN
    /\ ret = NoReturn
    /\ errno = E0
    /\ console = NoRequest
    /\ before = E0
    /\ ui = NoVisit
    /\ history = << >>
    /\ listed = NotListed
    /\ computed = NoneComputed
    /\ picked = NoPick
    /\ loop = NotRunning

(* The state after an engine call c made with output slot res ended in o *)
Ends(c, res, o, request) ==
    /\ pc' = IF o.trap THEN "trapped" ELSE "returned"
    /\ call' = c
    /\ old' = res.val
    /\ result' = o.val
    /\ ret' = o.ret
    /\ errno' = o.errno
    /\ console' = request
    /\ before' = errno
    /\ UNCHANGED <<ui, history, listed, computed, picked, loop>>

Add ==
    /\ pc = "ready"
    /\ \E a \in Doubles, b \in Doubles, res \in Slots :
          Ends(EngineCall("add", a, b, res.null), res,
               calculator_add(a, b, res, errno), NoRequest)

Subtract ==
    /\ pc = "ready"
    /\ \E a \in Doubles, b \in Doubles, res \in Slots :
          Ends(EngineCall("subtract", a, b, res.null), res,
               calculator_subtract(a, b, res, errno), NoRequest)

Multiply ==
    /\ pc = "ready"
    /\ \E a \in Doubles, b \in Doubles, res \in Slots :
          Ends(EngineCall("multiply", a, b, res.null), res,
               calculator_multiply(a, b, res, errno), NoRequest)

Divide ==
    /\ pc = "ready"
    /\ \E a \in Doubles, b \in Doubles, res \in Slots :
          Ends(EngineCall("divide", a, b, res.null), res,
               calculator_divide(a, b, res, errno), NoRequest)

Modulus ==
    /\ pc = "ready"
    /\ \E a \in Ints, b \in Ints, res \in Slots :
          \E o \in calculator_modulus(a, b, res, errno) :
              Ends(EngineCall("modulus", a, b, res.null), res, o, NoRequest)

Power ==
    /\ pc = "ready"
    /\ \E base \in PowBases, exponent \in PowExponents, res \in Slots :
          Ends(EngineCall("power", base, exponent, res.null), res,
               calculator_power(base, exponent, res, errno), NoRequest)

MenuHandleCalculation ==
    /\ pc = "ready"
    /\ \E operation \in MenuChoices, line1 \in Lines, line2 \in Lines,
          garbage \in SlotContents :
          \E m \in menu_handle_calculation(operation, line1, line2,
                                           garbage, errno) :
              Ends(m.call, Slot(garbage), m.out,
                   [operation |-> operation, line1 |-> line1,
                    line2 |-> line2, status |-> m.status])

(* The caller takes the outcome; its output slot goes out of scope *)
Return ==
    /\ pc = "returned"
    /\ pc' = "ready"
    /\ call' = NoCall
    /\ old' = NaN
    /\ result' = NaN
    /\ ret' = NoReturn
    /\ console' = NoRequest
    /\ before' = E0
    /\ ui' = NoVisit
    /\ picked' = NoPick
    /\ UNCHANGED <<errno, history, listed, computed, loop>>

(* Between two requests the process calls other library functions (the     *)
(* printf calls of the console); a library call may set errno to a nonzero *)
(* value whether or not it fails (C11 7.5p3)                               *)
LibraryCall ==
    /\ pc = "ready"
    /\ \E e \in Errnos : errno' = e
    /\ UNCHANGED <<pc, call, old, result, ret, console, before>>
    /\ UNCHANGED <<ui, history, listed, computed, picked, loop>>

MenuGetUserInput ==
    /\ pc = "ready"
    /\ \E choice \in ChoiceSlots, line \in ScanLines, garbage \in {INT_MIN, 0} :
          \E p \in menu_get_user_input(choice, line, garbage) :
              picked' = Pick(choice.null, line, choice.val, p.val, p.status,
                             p.reads)
    /\ pc' = "returned"
    /\ before' = errno
    /\ UNCHANGED <<call, old, result, ret, errno, console>>
    /\ UNCHANGED <<ui, history, listed, computed, loop>>

Next ==
    \/ Add
    \/ Subtract
    \/ Multiply
    \/ Divide
    \/ Modulus
    \/ Power
    \/ MenuHandleCalculation
    \/ MenuGetUserInput
    \/ Return
    \/ LibraryCall

Spec == Init /\ [][Next]_vars

----------------------------------------------------------------------------
(* State machine of the menus of main.c, as run_main_loop dispatches them  *)
(* (main.c:79-103).  The history log outlives a request.                   *)

(* The state after handler read its lines and ended in m *)
Handles(handler, line0, line1, line2, garbage, m) ==
    LET entry == Entry(m.call.a, m.call.b, m.out.val, handler,
                       strtol(line0).val)
    IN  /\ pc' = "returned"
        /\ call' = m.call
        /\ old' = garbage
        /\ result' = m.out.val
        /\ ret' = m.out.ret
        /\ errno' = m.out.errno
        /\ before' = errno
        /\ ui' = Visit(handler, line0,
                       IF m.lines >= 2 THEN line1 ELSE Unread,
                       IF m.lines >= 3 THEN line2 ELSE Unread, m.appends)
        /\ history' = m.history
        /\ listed' = IF m.appends > 0 THEN NotListed ELSE listed
        /\ computed' =
              IF m.out.ret # CALC_SUCCESS THEN computed
              ELSE IF Len(computed.entries) < MAX_HISTORY
              THEN Successes(Append(computed.entries, entry), FALSE)
              ELSE Successes(computed.entries, TRUE)
        /\ UNCHANGED <<console, picked>>

(* A call of handle_basic_operations() with a line of menuLines typed at   *)
(* its menu                                                                *)
BasicOperations(menuLines) ==
    /\ pc = "ready"
    /\ \E line0 \in menuLines, line1 \in BasicFirstLines,
          line2 \in BasicSecondLines, garbage \in LocalContents :
          \E m \in handle_basic_operations(line0, line1, line2, garbage,
                                           errno, history) :
              Handles("basic", line0, line1, line2, garbage, m)

(* A call of handle_advanced_operations() with a line of menuLines typed   *)
(* at its menu                                                             *)
AdvancedOperations(menuLines) ==
    /\ pc = "ready"
    /\ \E line0 \in menuLines, line1 \in AdvancedFirstLines,
          line2 \in AdvancedSecondLines, garbage \in LocalContents :
          \E m \in handle_advanced_operations(line0, line1, line2, garbage,
                                              errno, history) :
              Handles("advanced", line0, line1, line2, garbage, m)

(* A call of display_calculation_history() *)
CalculationHistory ==
    /\ pc = "ready"
    /\ LET d == display_calculation_history(history)
       IN  /\ history' = d.history
           /\ listed' = Listing(IF listed.times = 0 THEN 1 ELSE 2,
                                d.empty, d.entries)
    /\ pc' = "returned"
    /\ ui' = Visit("history", Unread, Unread, Unread, 0)
    /\ before' = errno
    /\ UNCHANGED <<call, old, result, ret, errno, console, computed, picked>>

HandleBasicOperations == BasicOperations(ChoiceLines) /\ UNCHANGED loop

HandleAdvancedOperations == AdvancedOperations(ChoiceLines) /\ UNCHANGED loop

DisplayCalculationHistory == CalculationHistory /\ UNCHANGED loop

NextMain ==
    \/ HandleBasicOperations
    \/ HandleAdvancedOperations
    \/ DisplayCalculationHistory
    \/ Return

SpecMain == Init /\ [][NextMain]_vars

----------------------------------------------------------------------------
(* State machine of run_main_loop, main.c:67-107: one action per statement *)
(* of the loop.  The observation variables of a handler are kept until the *)
(* next display of the main menu.                                          *)

(* Main menu choices, main.c:80-96 and the menu text at main.c:117-132 *)
MENU_BASIC_CALC == 1

MENU_ADVANCED_CALC == 2

MENU_HISTORY == 3

MENU_HELP == 4

MENU_EXIT == 5

EXIT_SUCCESS == "EXIT_SUCCESS"

(* What the local int choice may hold before it is assigned *)
LocalChoices == {0, MENU_EXIT}

(* Lines typed at the main menu *)
MainMenuLines ==
    {EndOfFile, Empty, Word, Decimal(Fin(1, 5 * Scale)), Digits(INT_MAX + 1)}
        \cup {Digits(n) : n \in 0..6}

(* Lines typed at the menus of the two handlers when the loop calls them:  *)
(* an unparsable line, addition and division; end of input, power and      *)
(* square root                                                             *)
LoopBasicLines == {Word, Digits(1), Digits(4)}

LoopAdvancedLines == {EndOfFile, Digits(1), Digits(2)}

(* The loop goes back to its test *)
Iterates(ended) == loop' = [loop EXCEPT !.at = "while", !.ended = ended]

(* int choice; bool running = true; main.c:68-69 *)
RunMainLoop ==
    /\ pc = "ready"
    /\ loop.at = "none"
    /\ \E garbage \in LocalChoices :
          loop' = Frame("while", TRUE, garbage, Unread, NoReturn, NoReturn)
    /\ UNCHANGED <<pc, call, old, result, ret, errno, console, before>>
    /\ UNCHANGED <<ui, history, listed, computed, picked>>

(* while (running) { display_main_menu(); main.c:71-72 *)
DisplayMainMenu ==
    /\ loop.at = "while"
    /\ loop.running
    /\ loop' = [loop EXCEPT !.at = "read"]
    /\ pc' = "ready"
    /\ call' = NoCall
    /\ old' = NaN
    /\ result' = NaN
    /\ ret' = NoReturn
    /\ before' = E0
    /\ ui' = NoVisit
    /\ UNCHANGED <<errno, console, history, listed, computed, picked>>

(* Variant: the continue after a failed read left out *)
GetUserChoice_FallsThrough ==
    /\ loop.at = "read"
    /\ \E line \in MainMenuLines :
          LET r == get_user_choice(Slot(loop.choice), line, errno)
          IN  /\ errno' = r.errno
              /\ loop' = [loop EXCEPT !.at = "switch", !.choice = r.val,
                                      !.line = line, !.ended = NoReturn]
    /\ UNCHANGED <<pc, call, old, result, ret, console, before>>
    /\ UNCHANGED <<ui, history, listed, computed, picked>>

(* if (get_user_choice(&choice) != INPUT_SUCCESS) { ... continue; }        *)
(* main.c:74-77                                                            *)
GetUserChoice ==
    /\ loop.at = "read"
    /\ \E line \in MainMenuLines :
          LET r == get_user_choice(Slot(loop.choice), line, errno)
          IN  /\ errno' = r.errno
              /\ loop' = [loop EXCEPT
                             !.at = IF r.status # INPUT_SUCCESS THEN "while"
                                    ELSE "switch",
                             !.choice = r.val, !.line = line,
                             !.ended = NoReturn]
    /\ UNCHANGED <<pc, call, old, result, ret, console, before>>
    /\ UNCHANGED <<ui, history, listed, computed, picked>>

(* case MENU_BASIC_CALC, main.c:80-82 *)
SwitchBasic ==
    /\ loop.at = "switch"
    /\ loop.choice = MENU_BASIC_CALC
    /\ BasicOperations(LoopBasicLines)
    /\ Iterates(ret')

(* case MENU_ADVANCED_CALC, main.c:84-86 *)
SwitchAdvanced ==
    /\ loop.at = "switch"
    /\ loop.choice = MENU_ADVANCED_CALC
    /\ AdvancedOperations(LoopAdvancedLines)
    /\ Iterates(ret')

(* case MENU_HISTORY, main.c:88-90 *)
SwitchHistory ==
    /\ loop.at = "switch"
    /\ loop.choice = MENU_HISTORY
    /\ CalculationHistory
    /\ Iterates(NoReturn)

(* case MENU_HELP: display_help() only prints, main.c:92-94 and 437-493 *)
SwitchHelp ==
    /\ loop.at = "switch"
    /\ loop.choice = MENU_HELP
    /\ Iterates(NoReturn)
    /\ UNCHANGED <<pc, call, old, result, ret, errno, console, before>>
    /\ UNCHANGED <<ui, history, listed, computed, picked>>

(* case MENU_EXIT: running = false, main.c:96-98 *)
SwitchExit ==
    /\ loop.at = "switch"
    /\ loop.choice = MENU_EXIT
    /\ loop' = [loop EXCEPT !.at = "while", !.running = FALSE]
    /\ UNCHANGED <<pc, call, old, result, ret, errno, console, before>>
    /\ UNCHANGED <<ui, history, listed, computed, picked>>

(* default, main.c:100-102 *)
SwitchDefault ==
    /\ loop.at = "switch"
    /\ loop.choice \notin MENU_BASIC_CALC..MENU_EXIT
    /\ Iterates(NoReturn)
    /\ UNCHANGED <<pc, call, old, result, ret, errno, console, before>>
    /\ UNCHANGED <<ui, history, listed, computed, picked>>

(* The loop test fails: return EXIT_SUCCESS, main.c:71 and 106 *)
ReturnExitSuccess ==
    /\ loop.at = "while"
    /\ ~loop.running
    /\ loop' = [loop EXCEPT !.at = "returned", !.status = EXIT_SUCCESS]
    /\ UNCHANGED <<pc, call, old, result, ret, errno, console, before>>
    /\ UNCHANGED <<ui, history, listed, computed, picked>>

NextLoop ==
    \/ RunMainLoop
    \/ DisplayMainMenu
    \/ GetUserChoice
    \/ SwitchBasic
    \/ SwitchAdvanced
    \/ SwitchHistory
    \/ SwitchHelp
    \/ SwitchExit
    \/ SwitchDefault
    \/ ReturnExitSuccess

(* The process keeps running: a statement that can execute does, and a     *)
(* read of the console ends with a line or with end of input               *)
SpecLoop == Init /\ [][NextLoop]_vars /\ WF_vars(NextLoop)

----------------------------------------------------------------------------
(* State machine of the square root alone, over every double of the format *)

AllDoubles ==
    {Fin(s, m) : s \in {1, 0 - 1}, m \in 0..MaxMag}
        \cup {NaN, Inf(1), Inf(0 - 1)}

CalculateSqrt ==
    /\ pc = "ready"
    /\ \E a \in AllDoubles, res \in Slots :
          Ends(EngineCall("calculate_sqrt", a, D(0), res.null), res,
               calculate_sqrt(a, res, errno), NoRequest)

NextSqrt ==
    \/ CalculateSqrt
    \/ Return

SpecSqrt == Init /\ [][NextSqrt]_vars

----------------------------------------------------------------------------
(* Properties.  They read the outcome of the last request from the state   *)
(* and restate the conditions of the claims on the operands themselves.    *)

Returned == pc = "returned"

FloatOps == {"add", "subtract", "multiply", "divide", "power"}

Finite(v) == v.k = "fin"

Negative(v) == v.k = "fin" /\ v.s = 0 - 1 /\ v.m > 0

(* The last request was the engine call op(a, b, &slot) *)
Called(op, a, b) ==
    Returned /\ call.op = op /\ ~call.null /\ call.a = a /\ call.b = b

(* Checks (1) and (2) of the validation order passed *)
OperandsAccepted == ~call.null /\ Finite(call.a) /\ Finite(call.b)

(* The zero or domain condition of check (3), on the operands *)
ZeroDivisor == call.op = "divide" /\ call.b.m < EpsUnits

ZeroBaseNegativeExponent ==
    call.op = "power" /\ call.a.m = 0 /\ Negative(call.b)

NegativeBaseFractionalExponent ==
    call.op = "power" /\ Negative(call.a) /\ call.b.m % Scale # 0

(* Checks (1)-(3) passed: the operation computed *)
Computes ==
    /\ OperandsAccepted
    /\ ~ZeroDivisor
    /\ ~ZeroBaseNegativeExponent
    /\ ~NegativeBaseFractionalExponent

(* The value the operation computes from its operands *)
Computed ==
    CASE call.op = "add" -> FAdd(call.a, call.b)
      [] call.op = "subtract" -> FSub(call.a, call.b)
      [] call.op = "multiply" -> FMul(call.a, call.b)
      [] call.op = "divide" -> FDiv(call.a, call.b)
      [] call.op = "power" -> pow(call.a, call.b).val

(* C1: add, subtract, multiply, divide and power check in the order        *)
(* (1) missing output slot, (2) operand finiteness, (3) zero/domain,       *)
(* (4) compute, (5) overflow/underflow: a NULL slot gives InvalidInput for *)
(* every operand pair; a NaN or infinite operand gives InvalidInput even   *)
(* when the operands also violate a zero or domain condition;              *)
(* DivisionByZero and DomainError only come after (1) and (2) passed;      *)
(* Overflow and Underflow only after (1)-(3) passed.                       *)
C1_ValidationOrder ==
    (Returned /\ call.op \in FloatOps) =>
        /\ call.null => ret = CALC_ERROR_INVALID_INPUT
        /\ (~Finite(call.a) \/ ~Finite(call.b))
              => ret = CALC_ERROR_INVALID_INPUT
        /\ ret \in {CALC_ERROR_DIVISION_BY_ZERO, CALC_ERROR_DOMAIN}
              => OperandsAccepted
        /\ ret \in {CALC_ERROR_OVERFLOW, CALC_ERROR_UNDERFLOW} => Computes

(* divide(+inf, 0) with an output slot was rejected as InvalidInput *)
C1_Witness ==
    /\ Called("divide", Inf(1), D(0))
    /\ ret = CALC_ERROR_INVALID_INPUT

(* C2: whenever an engine operation returns CALC_SUCCESS the value in the  *)
(* output slot is finite: never +infinity, -infinity or NaN.               *)
C2_SuccessIsFinite ==
    (Returned /\ call.op # "none" /\ ret = CALC_SUCCESS) =>
        (~call.null /\ Finite(result))

(* multiply(DBL_MAX, 1) succeeded with the largest finite value *)
C2_Witness ==
    /\ Called("multiply", DBL_MAX, D(1))
    /\ ret = CALC_SUCCESS
    /\ result = DBL_MAX

C4_SmallDivisor ==
    (Returned /\ call.op = "divide" /\ OperandsAccepted
        /\ call.b.m < EpsUnits) => ret = CALC_ERROR_DIVISION_BY_ZERO

(* divide(-5, b) for the negative b nearest to zero was DivisionByZero *)
C4_Witness ==
    /\ Called("divide", Neg(D(5)), Neg(Tiny))
    /\ ret = CALC_ERROR_DIVISION_BY_ZERO

(* C5 as stated: division is valid exactly when |b| > 1e-15, so divide     *)
(* returns something other than DivisionByZero only if |b| > 1e-15.        *)
C5_AsStated ==
    (Returned /\ call.op = "divide" /\ OperandsAccepted
        /\ ret # CALC_ERROR_DIVISION_BY_ZERO) => call.b.m > EpsUnits

(* C5 amended: for finite a and b divide returns something other than      *)
(* DivisionByZero exactly when |b| >= 1e-15; a divisor of magnitude        *)
(* exactly 1e-15 is accepted.                                              *)
C5_EpsilonAccepted ==
    (Returned /\ call.op = "divide" /\ OperandsAccepted) =>
        (ret # CALC_ERROR_DIVISION_BY_ZERO <=> call.b.m >= EpsUnits)

(* divide(6, 1e-15) succeeded *)
C5_Witness ==
    /\ Called("divide", D(6), CALC_PRECISION_EPSILON)
    /\ ret = CALC_SUCCESS
    /\ Finite(result) /\ result.m * EpsUnits = D(6).m * Scale

(* C6: for add, subtract, multiply, divide and power with operands that    *)
(* pass validation, the operation returns Overflow if and only if the      *)
(* computed result is +infinity, Underflow if and only if it is -infinity, *)
(* and Success for every finite computed result, a zero result included,   *)
(* also when pow reported a range error.                                   *)
C6_Classification ==
    (Returned /\ call.op \in FloatOps /\ Computes) =>
        /\ ret = CALC_ERROR_OVERFLOW <=> Computed = Inf(1)
        /\ ret = CALC_ERROR_UNDERFLOW <=> Computed = Inf(0 - 1)
        /\ Finite(Computed) => ret = CALC_SUCCESS

(* power(1/2, 10) collapsed to zero, pow set ERANGE, and it succeeded *)
C6_Witness ==
    /\ Called("power", Half, D(10))
    /\ result = D(0)
    /\ errno = ERANGE
    /\ ret = CALC_SUCCESS

(* C7 as stated: for add, subtract, multiply and divide with finite        *)
(* operands that pass validation, a non-finite computed result gives       *)
(* Overflow, whatever the sign of the infinity.                            *)
C7_AsStated ==
    (Returned /\ call.op \in FloatOps \ {"power"} /\ Computes
        /\ ~Finite(Computed)) => ret = CALC_ERROR_OVERFLOW

(* C7 amended: for add, subtract, multiply and divide with finite operands *)
(* that pass validation, a non-finite computed result is never a success:  *)
(* +infinity gives Overflow and -infinity gives Underflow.                 *)
C7_InfinityBySign ==
    (Returned /\ call.op \in FloatOps \ {"power"} /\ Computes
        /\ ~Finite(Computed)) =>
        \/ (result = Inf(1) /\ ret = CALC_ERROR_OVERFLOW)
        \/ (result = Inf(0 - 1) /\ ret = CALC_ERROR_UNDERFLOW)

(* subtract(-DBL_MAX, DBL_MAX) computed -infinity and returned Underflow *)
C7_Witness ==
    /\ Called("subtract", Neg(DBL_MAX), DBL_MAX)
    /\ result = Inf(0 - 1)
    /\ ret = CALC_ERROR_UNDERFLOW

(* C8: for finite base and exponent, power returns DivisionByZero if and   *)
(* only if base = 0 and exponent < 0, DomainError if and only if base < 0  *)
(* and the exponent is not an integer, and Success, Overflow or Underflow  *)
(* in every other case; power(0,-1) is DivisionByZero, power(-2,0.5) is    *)
(* DomainError, power(2,3) succeeds.                                       *)
C8_PowerErrors ==
    /\ (Returned /\ call.op = "power" /\ OperandsAccepted) =>
          /\ ret = CALC_ERROR_DIVISION_BY_ZERO <=> ZeroBaseNegativeExponent
          /\ ret = CALC_ERROR_DOMAIN <=> NegativeBaseFractionalExponent
          /\ ret \in {CALC_ERROR_DIVISION_BY_ZERO, CALC_ERROR_DOMAIN,
                      CALC_SUCCESS, CALC_ERROR_OVERFLOW, CALC_ERROR_UNDERFLOW}
    /\ Called("power", D(0), Neg(D(1))) => ret = CALC_ERROR_DIVISION_BY_ZERO
    /\ Called("power", Neg(D(2)), Half) => ret = CALC_ERROR_DOMAIN
    /\ Called("power", D(2), D(3)) => ret = CALC_SUCCESS

(* power(-2, 3): a negative base with an integer exponent succeeded *)
C8_Witness ==
    /\ Called("power", Neg(D(2)), D(3))
    /\ ret = CALC_SUCCESS
    /\ result = Neg(D(8))

(* C9: for every int a, modulus(a, 0, slot) returns DivisionByZero, and    *)
(* for b # 0 modulus never returns DivisionByZero; modulus(7,3) returns    *)
(* Success with value 1.                                                   *)
C9_ModulusByZero ==
    (pc # "ready" /\ call.op = "modulus" /\ ~call.null) =>
        /\ call.b = 0 => (Returned /\ ret = CALC_ERROR_DIVISION_BY_ZERO)
        /\ call.b # 0 => ret # CALC_ERROR_DIVISION_BY_ZERO
        /\ (call.a = 7 /\ call.b = 3) =>
              (Returned /\ ret = CALC_SUCCESS /\ result = D(1))

(* modulus(INT_MIN, 0) returned DivisionByZero *)
C9_Witness ==
    /\ Called("modulus", INT_MIN, 0)
    /\ ret = CALC_ERROR_DIVISION_BY_ZERO

(* An operand line whose number is not a value of int *)
OutsideIntRange(line) ==
    /\ line.parses
    /\ ~isnan(line.val)
    /\ \/ isinf(line.val)
       \/ Trunc(line.val) > INT_MAX
       \/ Trunc(line.val) < INT_MIN

(* C10: a Modulus request of the console with an operand larger than       *)
(* INT_MAX or smaller than INT_MIN yields InvalidInput, and no remainder   *)
(* is computed.                                                            *)
C10_OutOfRangeRejected ==
    (pc # "ready" /\ console.operation = MENU_CHOICE_MODULUS
        /\ console.line1.parses /\ console.line2.parses
        /\ (OutsideIntRange(console.line1) \/ OutsideIntRange(console.line2)))
    => (Returned /\ ret = CALC_ERROR_INVALID_INPUT /\ result = old)

(* The codes of calc_result_t an operation may return *)
ResultCodes ==
    {CALC_SUCCESS, CALC_ERROR_DIVISION_BY_ZERO, CALC_ERROR_DOMAIN,
     CALC_ERROR_OVERFLOW, CALC_ERROR_UNDERFLOW, CALC_ERROR_INVALID_INPUT}

(* C11: every engine operation that returns returns one of Success,        *)
(* DivisionByZero, DomainError, Overflow, Underflow, InvalidInput and      *)
(* never CALC_ERROR_INIT; add, subtract and multiply never return          *)
(* DivisionByZero or DomainError, divide never returns DomainError, and    *)
(* modulus never returns DomainError, Overflow or Underflow.               *)
C11_ReturnCodes ==
    (Returned /\ call.op \in FloatOps \cup {"modulus"}) =>
        /\ ret \in ResultCodes
        /\ ret # CALC_ERROR_INIT
        /\ call.op \in {"add", "subtract", "multiply"} =>
              ret \notin {CALC_ERROR_DIVISION_BY_ZERO, CALC_ERROR_DOMAIN}
        /\ call.op = "divide" => ret # CALC_ERROR_DOMAIN
        /\ call.op = "modulus" =>
              ret \notin {CALC_ERROR_DOMAIN, CALC_ERROR_OVERFLOW,
                          CALC_ERROR_UNDERFLOW}

(* add(5, 0): a zero second operand, and the sum was returned *)
C11_Witness ==
    /\ Called("add", D(5), D(0))
    /\ ret = CALC_SUCCESS
    /\ result = D(5)

(* The outcomes of the last engine call made again with errno e and a slot *)
(* holding v                                                               *)
Reruns(e, v) ==
    LET res == IF call.null THEN NullSlot ELSE Slot(v)
    IN  CASE call.op = "add" -> {calculator_add(call.a, call.b, res, e)}
          [] call.op = "subtract" ->
                {calculator_subtract(call.a, call.b, res, e)}
          [] call.op = "multiply" ->
                {calculator_multiply(call.a, call.b, res, e)}
          [] call.op = "divide" -> {calculator_divide(call.a, call.b, res, e)}
          [] call.op = "modulus" -> calculator_modulus(call.a, call.b, res, e)
          [] call.op = "power" -> {calculator_power(call.a, call.b, res, e)}

(* C12: each engine operation is a function of its operands only: whatever *)
(* errno the earlier calls left and whatever the output slot held, the     *)
(* same operation on the same operands returns the same code and, on       *)
(* success, the same value; power does not depend on the errno it finds.   *)
C12_PureFunction ==
    (Returned /\ call.op \in FloatOps \cup {"modulus"}) =>
        \A e \in Errnos, v \in SlotContents :
            \A o \in Reruns(e, v) :
                ~o.trap =>
                    /\ o.ret = ret
                    /\ ret = CALC_SUCCESS => o.val = result

(* power(2, 3) called with errno = EDOM left behind returned 8 *)
C12_Witness ==
    /\ Called("power", D(2), D(3))
    /\ before = EDOM
    /\ ret = CALC_SUCCESS
    /\ result = D(8)
    /\ errno = E0

(* The engine call of the last request was made by menu_handle_calculation *)
FromMenu == pc # "ready" /\ call.op # "none" /\ console.line1.parses

(* The last request was a visit to a calculation menu of main.c *)
Visited == Returned /\ ui.handler \in {"basic", "advanced"}

(* C13: every operand the console accepts and hands to an engine operation *)
(* is finite: get_double_input and menu_get_numeric_input report an input  *)
(* error for text that converts to NaN or an infinity, so no engine call   *)
(* made by a handler has such an operand.                                  *)
C13_AcceptedOperandsFinite ==
    /\ FromMenu =>
          /\ isfinite(console.line1.val)
          /\ isfinite(console.line2.val)
    /\ (Visited /\ call.op # "none") =>
          /\ isfinite(call.a)
          /\ isfinite(call.b)

(* The line converts to a finite double as a whole *)
FiniteNumber(line) ==
    /\ line.kind \in {"empty", "digits", "decimal"}
    /\ isfinite(strtod(line).val)

(* C14: handle_basic_operations and handle_advanced_operations call the    *)
(* history append exactly once after an engine call that returned          *)
(* CALC_SUCCESS, and not at all after an engine error, an invalid choice   *)
(* in the menu (no operand is read then) or an invalid operand line.       *)
C14_RecordedIffSucceeded ==
    Visited =>
        /\ ui.appends = IF call.op # "none" /\ ret = CALC_SUCCESS
                        THEN 1 ELSE 0
        /\ ui.line1 = Unread => (call.op = "none" /\ ui.appends = 0)
        /\ ~FiniteNumber(ui.line1) => (call.op = "none" /\ ui.appends = 0)
        /\ (ui.line2 # Unread /\ ~FiniteNumber(ui.line2)) =>
              (call.op = "none" /\ ui.appends = 0)

(* Basic menu, choice 4, operands 2 and 0: divide returned DivisionByZero  *)
(* and nothing was appended to the empty log                               *)
C14_Witness ==
    /\ Visited
    /\ ui.handler = "basic"
    /\ call.op = "calculate_divide"
    /\ ret = CALC_ERROR_DIVISION_BY_ZERO
    /\ ui.appends = 0
    /\ history = << >>

(* A step of handle_basic_operations or handle_advanced_operations that    *)
(* called the history append                                               *)
Records == pc = "ready" /\ ui'.appends > 0

(* A step of display_calculation_history *)
Displays == pc = "ready" /\ ui'.handler = "history"

C16_ListsRecorded ==
    (Returned /\ ui.handler = "history" /\ ~computed.excess) =>
        /\ listed.entries = computed.entries
        /\ listed.empty <=> Len(computed.entries) = 0

(* The display of a log filled to its capacity, first from the advanced    *)
(* menu and last from the basic menu                                       *)
C16_Witness ==
    /\ Returned
    /\ ui.handler = "history"
    /\ ~computed.excess
    /\ ~listed.empty
    /\ Len(listed.entries) = MAX_HISTORY
    /\ listed.entries[1].menu = "advanced"
    /\ listed.entries[MAX_HISTORY] = Entry(D(2), D(0), D(2), "basic", 2)

ToleranceUnits == 4

(* The last request was calculate_sqrt(a, &slot) with a finite a *)
SqrtCalled ==
    Returned /\ call.op = "calculate_sqrt" /\ ~call.null /\ Finite(call.a)

(* |v * v - a|, exactly, in squares of a step *)
SquareError(v, a) == Abs(v.m * v.m - a.m * Scale)

C19_SuccessOnlyOnSuccess ==
    (Returned /\ console.status = MENU_SUCCESS) =>
        (call.op # "none" /\ ret = CALC_SUCCESS)

(* The last request was a call of menu_get_user_input *)
PickedChoice == Returned /\ picked.status # NoReturn

(* C20: menu_get_user_input returns MENU_SUCCESS if and only if the input  *)
(* is an integer from 1 to 7, with *choice that integer; for unparsable    *)
(* input or an integer outside 1..7 it returns MENU_ERROR_INVALID_INPUT    *)
(* with *choice = MENU_CHOICE_INVALID; with a NULL pointer it returns      *)
(* MENU_ERROR_INVALID_INPUT without reading the input.                     *)
C20_ChoiceValidated ==
    PickedChoice =>
        /\ picked.null =>
              (picked.status = MENU_ERROR_INVALID_INPUT /\ ~picked.reads)
        /\ ~picked.null =>
              /\ picked.status \in {MENU_SUCCESS, MENU_ERROR_INVALID_INPUT}
              /\ picked.line.kind = "digits" =>
                    /\ picked.status = MENU_SUCCESS
                          <=> picked.line.n \in 1..7
                    /\ picked.status = MENU_SUCCESS =>
                          picked.choice = picked.line.n
              /\ picked.line.kind \in {"eof", "word"} =>
                    picked.status = MENU_ERROR_INVALID_INPUT
              /\ picked.status = MENU_ERROR_INVALID_INPUT =>
                    picked.choice = MENU_CHOICE_INVALID

(* C21: for every int a and every int b # 0, also a = INT_MIN with         *)
(* b = -1, calculator_modulus returns (no trap crosses the engine          *)
(* boundary), with Success and the remainder r of the division truncated   *)
(* toward zero: a - r is a multiple of b, |r| < |b|, and r is zero or has  *)
(* the sign of a.                                                          *)
C21_ModulusReturns ==
    (pc # "ready" /\ call.op = "modulus" /\ ~call.null /\ call.b # 0) =>
        /\ Returned
        /\ ret = CALC_SUCCESS
        /\ \E r \in INT_MIN..INT_MAX :
              /\ result = IntToDouble(r)
              /\ (call.a - r) % Abs(call.b) = 0
              /\ Abs(r) < Abs(call.b)
              /\ r = 0 \/ Sgn(r) = Sgn(call.a)

(* The operation of the last request passed its validation checks and      *)
(* reached its compute step, told from the operands                        *)
ReachesCompute ==
    IF call.op = "modulus" THEN ~call.null /\ call.b # 0 ELSE Computes

(* The value the compute step of the last request stores *)
Stored ==
    IF call.op = "modulus" THEN IntToDouble(CRem(call.a, call.b))
    ELSE Computed

(* C23: an engine operation writes the caller's output slot if and only if *)
(* it reaches the compute step: when add, subtract, multiply, divide,      *)
(* modulus or power returns InvalidInput, DivisionByZero or DomainError    *)
(* the slot holds what it held before the call; when it returns Overflow   *)
(* or Underflow the slot holds the infinite value that was computed.       *)
C23_SlotWrittenIffComputed ==
    (Returned /\ call.op \in FloatOps \cup {"modulus"} /\ ~call.null) =>
        /\ ReachesCompute <=>
              ret \in {CALC_SUCCESS, CALC_ERROR_OVERFLOW, CALC_ERROR_UNDERFLOW}
        /\ ReachesCompute => result = Stored
        /\ ~ReachesCompute => result = old
        /\ ret \in {CALC_ERROR_INVALID_INPUT, CALC_ERROR_DIVISION_BY_ZERO,
                    CALC_ERROR_DOMAIN} => result = old
        /\ ret \in {CALC_ERROR_OVERFLOW, CALC_ERROR_UNDERFLOW} =>
              (isinf(result) /\ result = Stored)

(* multiply(DBL_MAX, 2) into a slot that held a finite value returned      *)
(* Overflow and left +infinity in the slot                                 *)
C23_Witness ==
    /\ Called("multiply", DBL_MAX, D(2))
    /\ ret = CALC_ERROR_OVERFLOW
    /\ old = Fin(1, 7)
    /\ result = Inf(1)

(* The last line read at the main menu is the choice Exit *)
ExitRead == loop.line = Digits(MENU_EXIT)

(* An iteration of the loop has ended: the loop is back at its test *)
IterationEnded == loop.at = "while" /\ loop.line # Unread

====
